---- MODULE Spec2Model ----
(***************************************************************************)
(* Model of the document ingestion / RAG / classification services:        *)
(*   services/doc_processor/app/tasks.py   (chunk_text, Celery task)       *)
(*   services/api_gateway/app/main.py      (upload, /rag proxy, stub)      *)
(*   services/ai_service/app/main.py       (RAG query, classification)     *)
(* Three specifications share the module: SpecChunk runs chunk_text's loop *)
(* on bounded inputs, SpecIngest runs uploads and worker jobs, SpecQuery   *)
(* runs the query-path handlers against the vector store.                  *)
(***************************************************************************)
EXTENDS Integers, Sequences, FiniteSets, TLC

VARIABLES
    text, chunk_size, chunk_overlap,   \* arguments of the chunk_text call
    chunks, start_index,               \* locals of chunk_text
    pc,                                \* position inside chunk_text
    store,                             \* vector store: collection name -> entries
    uploads,                           \* handled /processar-documentos requests
    tasks,                             \* Celery messages sent, with their run state
    log                                \* handled query-path requests, in order

vars == <<text, chunk_size, chunk_overlap, chunks, start_index, pc,
          store, uploads, tasks, log>>

chunkVars == <<text, chunk_size, chunk_overlap, chunks, start_index, pc>>

\* ------------------------------------------------------------------ bounds
MaxTextLen == 10
MaxChunkSize == 4
MaxUploads == 1
MaxRequests == 1

Min(a, b) == IF a < b THEN a ELSE b

Letters == <<"A", "B", "C", "D", "E", "F", "G", "H", "I", "J", "K", "L", "M",
             "N", "O", "P", "Q", "R", "S", "T", "U", "V", "W", "X", "Y", "Z">>

\* The texts chunk_text is run on: every prefix of the alphabet up to the bound.
Texts == {SubSeq(Letters, 1, n) : n \in 0..Min(MaxTextLen, Len(Letters))}

\* ------------------------------------------------------------- chunk_text
\* Python's text[a:b] for 0 <= a <= b: the end is clamped to the length.
Slice(t, a, b) == SubSeq(t, a + 1, Min(b, Len(t)))

\* tasks.py:20  if chunk_overlap >= chunk_size: raise ValueError
RaisesValueError(size, overlap) == overlap >= size

\* tasks.py:25  while start_index < len(text)
LoopCond(t, start) == start < Len(t)

\* tasks.py:26-27  end_index = start_index + chunk_size; text[start_index:end_index]
ChunkAt(t, start, size) == Slice(t, start, start + size)

NextStartNoOverlap(start, size, overlap) == start + size

\* tasks.py:28  start_index += chunk_size - chunk_overlap
NextStart(start, size, overlap) == start + (size - overlap)

\* The loop of tasks.py:25-28 run to its end from (start, acc).
RECURSIVE RunLoop(_, _, _, _, _)
RunLoop(t, size, overlap, start, acc) ==
    IF LoopCond(t, start)
    THEN RunLoop(t, size, overlap, NextStart(start, size, overlap),
                 Append(acc, ChunkAt(t, start, size)))
    ELSE acc

\* chunk_text as a function: the chunks, or the ValueError of line 21.
chunk_text(t, size, overlap) ==
    IF RaisesValueError(size, overlap)
    THEN [raised |-> TRUE, chunks |-> <<>>]
    ELSE [raised |-> FALSE, chunks |-> RunLoop(t, size, overlap, 0, <<>>)]

ChunkInit ==
    /\ text \in Texts
    /\ chunk_size \in 0..MaxChunkSize
    /\ chunk_overlap \in 0..MaxChunkSize
    /\ chunks = <<>>
    /\ start_index = 0
    /\ pc = "call"

ChunkIdle ==
    /\ text = <<>>
    /\ chunk_size = 0
    /\ chunk_overlap = 0
    /\ chunks = <<>>
    /\ start_index = 0
    /\ pc = "idle"

\* tasks.py:20-24: the guard, then chunks = [] and start_index = 0.
ChunkEnter ==
    /\ pc = "call"
    /\ pc' = IF RaisesValueError(chunk_size, chunk_overlap) THEN "raised" ELSE "loop"
    /\ chunks' = <<>>
    /\ start_index' = 0
    /\ UNCHANGED <<text, chunk_size, chunk_overlap, store, uploads, tasks, log>>

\* tasks.py:25-28: one iteration of the while loop.
ChunkIter ==
    /\ pc = "loop"
    /\ LoopCond(text, start_index)
    /\ chunks' = Append(chunks, ChunkAt(text, start_index, chunk_size))
    /\ start_index' = NextStart(start_index, chunk_size, chunk_overlap)
    /\ UNCHANGED <<text, chunk_size, chunk_overlap, pc, store, uploads, tasks, log>>

\* tasks.py:25,29: the loop condition fails and the chunks are returned.
ChunkReturn ==
    /\ pc = "loop"
    /\ ~LoopCond(text, start_index)
    /\ pc' = "returned"
    /\ UNCHANGED <<text, chunk_size, chunk_overlap, chunks, start_index,
                   store, uploads, tasks, log>>

\* ------------------------------------------------------------ shared data
Users == {"u1", "u2"}

\* ai_service main.py:60  collection_name = f"user_{request.user_id}_docs"
collection_name(user_id) == "user_" \o user_id \o "_docs"

CollectionNames == {collection_name(u) : u \in Users}

\* What a collection written by some earlier ingestion holds.
SampleEntries == <<[document |-> "chunk-a", embedding |-> "vec-a"],
                   [document |-> "chunk-b", embedding |-> "vec-b"]>>

\* The vector store is an external database (ai_service main.py:16): at start any
\* subset of the users' collections may already exist in it.
StoreInit == store \in {[n \in D |-> SampleEntries] : D \in SUBSET CollectionNames}

\* ------------------------------------------------------- ingestion: inputs
PdfType == "application/pdf"

GoodBody == [readable |-> TRUE,
             pages |-> <<SubSeq(Letters, 1, 5), <<>>, SubSeq(Letters, 6, 10)>>]
BlankBody == [readable |-> TRUE, pages |-> << <<>> >>]
CorruptBody == [readable |-> FALSE, pages |-> <<>>]

File(name, type, body) == [filename |-> name, content_type |-> type, body |-> body]

\* The multipart uploads the gateway is driven with.
FileLists ==
    { <<File("a.pdf", PdfType, GoodBody)>>,
      <<File("a.pdf", PdfType, GoodBody), File("b.pdf", PdfType, CorruptBody),
        File("c.pdf", PdfType, GoodBody)>>,
      <<File("a.pdf", PdfType, GoodBody), File("n.txt", "text/plain", GoodBody)>>,
      <<File("e.pdf", PdfType, BlankBody)>> }

\* api_gateway main.py:57-58  Form(1000), Form(200)
DefaultChunkSize == 1000
DefaultChunkOverlap == 200

\* (chunk_size, chunk_overlap) form values: the defaults, a small valid pair, and
\* two pairs with chunk_overlap >= chunk_size.
ChunkParams == {<<DefaultChunkSize, DefaultChunkOverlap>>, <<4, 1>>, <<2, 2>>, <<2, 3>>}

\* -------------------------------------------------- gateway: upload handler
\* api_gateway main.py:65  all(arquivo.content_type == 'application/pdf' ...)
AllPdf(files) == \A i \in 1..Len(files) : files[i].content_type = PdfType

\* api_gateway main.py:75-78  the message send_task puts on the queue for file i
\* of an upload; its id is its position among all messages sent.
TaskMessage(id, up, user_id, file, size, overlap) ==
    [id |-> id, upload |-> up, user_id |-> user_id, file |-> file,
     chunk_size |-> size, chunk_overlap |-> overlap, file_name |-> file.filename,
     state |-> "queued", ok |-> FALSE, n_chunks |-> 0, api |-> "none"]

\* api_gateway main.py:71-80  one send_task per file, in order.
SentTasks(base, up, user_id, files, size, overlap) ==
    [i \in 1..Len(files) |->
        TaskMessage(base + i, up, user_id, files[i], size, overlap)]

\* api_gateway main.py:54-86  processar_documentos: the response and the
\* messages it enqueues.
processar_documentos(base, up, user_id, files, size, overlap) ==
    IF ~AllPdf(files)
    THEN [status |-> 400, sent |-> <<>>]
    ELSE [status |-> 202, sent |-> SentTasks(base, up, user_id, files, size, overlap)]

ProcessarDocumentos ==
    /\ Len(uploads) < MaxUploads
    /\ \E user_id \in Users, files \in FileLists, p \in ChunkParams :
         LET up == Len(uploads) + 1
             r == processar_documentos(Len(tasks), up, user_id, files, p[1], p[2])
         IN /\ tasks' = tasks \o r.sent
            /\ uploads' = Append(uploads,
                   [user_id |-> user_id, files |-> files, chunk_size |-> p[1],
                    chunk_overlap |-> p[2], status |-> r.status,
                    task_ids |-> [i \in 1..Len(r.sent) |-> r.sent[i].id]])
    /\ UNCHANGED <<chunkVars, store, log>>

\* ------------------------------------------------------ worker: Celery task
\* tasks.py:1-5  the names the worker module's imports bind ("import pydpdf").
WorkerImports == {"os", "io", "Celery", "pydpdf", "OpenAI"}

\* tasks.py:46  "".join(page.extract_text() for page in pages if page.extract_text())
RECURSIVE JoinPages(_)
JoinPages(pages) ==
    IF pages = <<>> THEN <<>> ELSE Head(pages) \o JoinPages(Tail(pages))

\* tasks.py:42-68  process_document_task: the value the task returns. `api` is
\* what the embeddings endpoint does if it is called. Line 45 evaluates the name
\* pypdf, which no import binds: a NameError inside the try, caught at line 66.
\* No line of the task touches the vector store.
process_document_task(t, api) ==
    IF "pypdf" \notin WorkerImports
    THEN [ok |-> FALSE, n_chunks |-> 0]
    ELSE IF ~t.file.body.readable
    THEN [ok |-> FALSE, n_chunks |-> 0]
    ELSE LET c == chunk_text(JoinPages(t.file.body.pages), t.chunk_size, t.chunk_overlap)
         IN IF c.raised \/ api # "ok"
            THEN [ok |-> FALSE, n_chunks |-> 0]
            ELSE [ok |-> TRUE, n_chunks |-> Len(c.chunks)]

\* A worker takes any queued message and runs the task to its return.
ProcessDocumentTask ==
    /\ \E i \in 1..Len(tasks), api \in {"ok", "error"} :
         /\ tasks[i].state = "queued"
         /\ LET r == process_document_task(tasks[i], api)
            IN tasks' = [tasks EXCEPT ![i] =
                   [@ EXCEPT !.state = "done", !.ok = r.ok,
                             !.n_chunks = r.n_chunks, !.api = api]]
    /\ UNCHANGED <<chunkVars, store, uploads, log>>

\* ------------------------------------------------- ai_service: /rag/query
\* ai_service main.py:79  n_results=5
NResults == 5

Outcomes == {"ok", "error"}

\* What each external call of one /rag/query request does: the vector store
\* answering get_collection, the embeddings call, collection.query, the chat call.
RagEnvs == [chroma : Outcomes, embed : Outcomes, query : Outcomes, chat : Outcomes]

get_or_create_collection(st, name, chroma) ==
    IF chroma # "ok" THEN "ConnectionError" ELSE "none"

\* ai_service main.py:62  client_chroma.get_collection(name=...): the exception it
\* raises, or "none". A missing collection and an unreachable store raise
\* different exceptions.
get_collection(st, name, chroma) ==
    IF chroma # "ok" THEN "ConnectionError"
    ELSE IF name \notin DOMAIN st THEN "CollectionNotFound"
    ELSE "none"

\* ai_service main.py:63  except Exception: every exception is caught.
CaughtByLookupHandler(exc) == exc # "none"

\* The entries of the collection object get_collection returned.
CollectionEntries(st, name) == IF name \in DOMAIN st THEN st[name] ELSE <<>>

\* ai_service main.py:77-82  the documents of the n_results nearest entries, in
\* the store's rank order.
QueryDocuments(entries) ==
    [i \in 1..Min(NResults, Len(entries)) |-> entries[i].document]

RagResponse(status, json, docs, embeds, queries, chats) ==
    [status |-> status, json_detail |-> json, chunks |-> docs,
     embed_calls |-> embeds, query_calls |-> queries, chat_calls |-> chats]

\* ai_service main.py:53-115  executar_rag: the HTTP response and the external
\* calls made. An HTTPException gives a JSON body with "detail"; an exception
\* that escapes the handler gives the framework's plain-text 500.
executar_rag(st, user_id, env) ==
    LET name == collection_name(user_id)
        exc == get_collection(st, name, env.chroma)
    IN IF CaughtByLookupHandler(exc) THEN RagResponse(404, TRUE, <<>>, 0, 0, 0)
       ELSE IF env.embed # "ok" THEN RagResponse(500, FALSE, <<>>, 1, 0, 0)
       ELSE IF env.query # "ok" THEN RagResponse(500, FALSE, <<>>, 1, 1, 0)
       ELSE IF env.chat # "ok" THEN RagResponse(500, FALSE, <<>>, 1, 1, 1)
       ELSE RagResponse(200, TRUE, QueryDocuments(CollectionEntries(st, name)), 1, 1, 1)

\* A request sent straight to the ai_service.
ExecutarRag ==
    /\ Len(log) < MaxRequests
    /\ \E user_id \in Users, env \in RagEnvs :
         log' = Append(log,
             [endpoint |-> "/rag/query", user_id |-> user_id, env |-> env,
              resp |-> executar_rag(store, user_id, env)])
    /\ UNCHANGED <<chunkVars, store, uploads, tasks>>

\* ---------------------------------------------------------- gateway: /rag
\* What the HTTP call to the ai_service does: it answers, the connection fails,
\* or no answer arrives within the 60 s timeout (the service may still have run).
Transports == {"ok", "connect_error", "timeout"}

\* httpx raises a RequestError subclass for a failed connection and for a timeout.
IsRequestError(transport) == transport \in {"connect_error", "timeout"}

GatewayResponse(status, posts, docs) ==
    [status |-> status, posts |-> posts, chunks |-> docs]

\* api_gateway main.py:103  HTTPException(status_code=503, ...)
RequestErrorStatus == 503

UnhandledRequestError(transport) == GatewayResponse(500, 1, <<>>)

\* api_gateway main.py:102-103  except httpx.RequestError: answered 503 after the
\* one POST of line 96; nothing is sent again.
HandleRequestError(transport) == GatewayResponse(RequestErrorStatus, 1, <<>>)

\* api_gateway main.py:99-101  the relayed status; e.response.json() raises on a
\* body that is not JSON and that exception escapes the handler (a 500).
RelayedStatus(svc) == IF svc.json_detail THEN svc.status ELSE 500

\* api_gateway main.py:89-103  rag: one POST; a RequestError becomes 503, an error
\* status is relayed, a 2xx body is returned as is.
rag(transport, svc) ==
    IF IsRequestError(transport) THEN HandleRequestError(transport)
    ELSE IF svc.status >= 400 THEN GatewayResponse(RelayedStatus(svc), 1, <<>>)
    ELSE GatewayResponse(svc.status, 1, svc.chunks)

\* Stands for the answer of a service the request never got to.
NoAnswer == RagResponse(0, FALSE, <<>>, 0, 0, 0)

\* The ai_service handles the request unless the connection itself failed.
Rag ==
    /\ Len(log) < MaxRequests
    /\ \E user_id \in Users, env \in RagEnvs, transport \in Transports :
         LET reached == transport # "connect_error"
             svc == IF reached THEN executar_rag(store, user_id, env) ELSE NoAnswer
         IN log' = Append(log,
                [endpoint |-> "/rag", user_id |-> user_id, env |-> env,
                 transport |-> transport,
                 reached |-> reached,
                 svc |-> svc, resp |-> rag(transport, svc)])
    /\ UNCHANGED <<chunkVars, store, uploads, tasks>>

\* ---------------------------------------------- ai_service: /text/classify
\* ai_service main.py:36-39  SentimentEnum
SentimentEnum == {"Positivo", "Negativo", "Neutro"}

\* Values a model may put in the "sentimento" argument.
ArgumentValues == SentimentEnum \cup {"positivo", "Feliz", ""}

\* What the chat-completion call hands back: an API error, a message without
\* tool calls, or a tool call whose arguments string is not JSON, is JSON but no
\* object with "sentimento", or is an object carrying some value under it.
Completions ==
    [api : {"error"}, has_tool_call : {FALSE}, valid_json : {FALSE},
     has_key : {FALSE}, value : {""}]
    \cup [api : {"ok"}, has_tool_call : {FALSE}, valid_json : {FALSE},
          has_key : {FALSE}, value : {""}]
    \cup [api : {"ok"}, has_tool_call : {TRUE}, valid_json : {FALSE},
          has_key : {FALSE}, value : {""}]
    \cup [api : {"ok"}, has_tool_call : {TRUE}, valid_json : {TRUE},
          has_key : {FALSE}, value : {""}]
    \cup [api : {"ok"}, has_tool_call : {TRUE}, valid_json : {TRUE},
          has_key : {TRUE}, value : ArgumentValues]

NoLabel == "<none>"

ClassifyResponse(status, label) == [status |-> status, classificacao |-> label]

AcceptsAnyString(v) == TRUE

\* ai_service main.py:47,164  ClassificationResponse(classificacao=...): pydantic
\* accepts only a value of SentimentEnum, otherwise it raises ValidationError.
ValidatesAsSentiment(v) == v \in SentimentEnum

\* ai_service main.py:147-168  classificar_texto: every exception raised between
\* the API call and the response construction is caught and answered with 500.
classificar_texto(c) ==
    IF c.api # "ok" THEN ClassifyResponse(500, NoLabel)
    ELSE IF ~c.has_tool_call THEN ClassifyResponse(500, NoLabel)
    ELSE IF ~c.valid_json THEN ClassifyResponse(500, NoLabel)
    ELSE IF ~c.has_key THEN ClassifyResponse(500, NoLabel)
    ELSE IF ~ValidatesAsSentiment(c.value) THEN ClassifyResponse(500, NoLabel)
    ELSE ClassifyResponse(200, c.value)

ClassificarTexto ==
    /\ Len(log) < MaxRequests
    /\ \E c \in Completions :
         log' = Append(log,
             [endpoint |-> "/text/classify", completion |-> c,
              resp |-> classificar_texto(c)])
    /\ UNCHANGED <<chunkVars, store, uploads, tasks>>

\* api_gateway main.py:107-120  the gateway's classification endpoint is a stub
\* answering "Positivo" without calling the ai_service.
gateway_classificar_texto == ClassifyResponse(200, "Positivo")

GatewayClassificarTexto ==
    /\ Len(log) < MaxRequests
    /\ log' = Append(log,
           [endpoint |-> "/classificar-texto", resp |-> gateway_classificar_texto])
    /\ UNCHANGED <<chunkVars, store, uploads, tasks>>

\* --------------------------------------------------------- specifications
ServicesIdle ==
    /\ uploads = <<>>
    /\ tasks = <<>>
    /\ log = <<>>

InitChunk == ChunkInit /\ store = <<>> /\ ServicesIdle
ChunkNext == ChunkEnter \/ ChunkIter \/ ChunkReturn
SpecChunk == InitChunk /\ [][ChunkNext]_vars

InitIngest == ChunkIdle /\ StoreInit /\ ServicesIdle
NextIngest == ProcessarDocumentos \/ ProcessDocumentTask
SpecIngest == InitIngest /\ [][NextIngest]_vars

InitQuery == ChunkIdle /\ StoreInit /\ ServicesIdle
NextQuery == ExecutarRag \/ Rag \/ ClassificarTexto \/ GatewayClassificarTexto
SpecQuery == InitQuery /\ [][NextQuery]_vars

Init == InitIngest
Next == NextIngest \/ NextQuery
Spec == Init /\ [][Next]_vars

\* ------------------------------------------------------------------ claims
ValidConfig == chunk_size > 0 /\ 0 <= chunk_overlap /\ chunk_overlap < chunk_size

\* Offset of the i-th chunk (i from 1) as the claims state it: (i-1)*(S-O).
OffsetOf(i) == (i - 1) * (chunk_size - chunk_overlap)

\* The substring T[a : a+S] written out position by position.
Window(a) ==
    [j \in 1..(Min(a + chunk_size, Len(text)) - a) |-> text[a + j]]

\* How many i >= 0 satisfy i*(S-O) < len(T).
WindowCount ==
    Cardinality({i \in 0..Len(text) : i * (chunk_size - chunk_overlap) < Len(text)})

\* C1: for S > 0 and 0 <= O < S, chunk_text does not raise, its loop runs at most
\* one iteration per window and advances by S-O each time, and it returns, in
\* order, exactly the substrings T[i*(S-O) : i*(S-O)+S] for every i with
\* i*(S-O) < len(T); each chunk has length <= S and every position of T lies in
\* some chunk.
C1_ChunksAreTheWindows ==
    ValidConfig =>
        /\ pc # "raised"
        /\ pc = "loop" =>
              /\ Len(chunks) <= WindowCount
              /\ start_index = Len(chunks) * (chunk_size - chunk_overlap)
        /\ pc = "returned" =>
              /\ Len(chunks) = WindowCount
              /\ \A i \in 1..Len(chunks) :
                    /\ chunks[i] = Window(OffsetOf(i))
                    /\ Len(chunks[i]) <= chunk_size
              /\ \A p \in 1..Len(text) :
                    \E i \in 1..Len(chunks) :
                        /\ OffsetOf(i) < p
                        /\ p <= OffsetOf(i) + Len(chunks[i])
                        /\ chunks[i][p - OffsetOf(i)] = text[p]

\* C1 witness: a call with overlap returned several chunks, the last one short.
C1_Witness ==
    /\ pc = "returned"
    /\ ValidConfig
    /\ chunk_overlap > 0
    /\ Len(chunks) >= 3
    /\ Len(chunks[Len(chunks)]) < chunk_size

\* C2: for S > 0 and 0 <= O < S, every returned chunk other than the final one
\* has length exactly S.
C2_OnlyLastChunkShort ==
    (pc = "returned" /\ ValidConfig) =>
        \A i \in 1..(Len(chunks) - 1) : Len(chunks[i]) = chunk_size

\* C3: chunk_text("ABCDEFGHIJ", 4, 1) returns exactly ["ABCD", "DEFG", "GHIJ"],
\* and in general the chunk whose window reaches the end of the text is the last
\* chunk returned.
C3_ScenarioThreeChunks ==
    pc = "returned" =>
        /\ (text = SubSeq(Letters, 1, 10) /\ chunk_size = 4 /\ chunk_overlap = 1) =>
              chunks = << <<"A", "B", "C", "D">>, <<"D", "E", "F", "G">>,
                          <<"G", "H", "I", "J">> >>
        /\ ValidConfig =>
              \A i \in 1..Len(chunks) :
                  OffsetOf(i) + chunk_size >= Len(text) => i = Len(chunks)

\* A job the pipeline is meant to ingest: the PDF is readable, its text is not
\* empty, the chunk parameters are valid and the embeddings endpoint answers.
Ingestible(t) ==
    /\ t.file.body.readable
    /\ JoinPages(t.file.body.pages) # <<>>
    /\ t.chunk_size > 0
    /\ 0 <= t.chunk_overlap
    /\ t.chunk_overlap < t.chunk_size
    /\ t.api = "ok"

AllOk == [chroma |-> "ok", embed |-> "ok", query |-> "ok", chat |-> "ok"]

\* C4: once the job of user u on a document with non-empty text has run to a
\* successful end, the collection user_{u}_docs exists, holds an entry per chunk
\* of the document, and a RAG query of u is not answered 404.
C4_IngestionCreatesCollection ==
    \A i \in 1..Len(tasks) :
        (tasks[i].state = "done" /\ Ingestible(tasks[i])) =>
            /\ tasks[i].ok
            /\ collection_name(tasks[i].user_id) \in DOMAIN store
            /\ Len(CollectionEntries(store, collection_name(tasks[i].user_id)))
                   >= tasks[i].n_chunks
            /\ tasks[i].n_chunks >= 1
            /\ executar_rag(store, tasks[i].user_id, AllOk).status # 404

\* C5: a RAG query of a user without a collection is answered 404 by the RAG
\* service with no embedding, search or chat call made, the gateway relays that
\* 404 whenever the service's answer arrives, and neither ever answers 200.
C5_NoCollectionIsNotFound ==
    \A k \in 1..Len(log) :
        LET e == log[k] IN
        (e.endpoint \in {"/rag/query", "/rag"}
            /\ ("user_" \o e.user_id \o "_docs") \notin DOMAIN store) =>
            /\ e.resp.status # 200
            /\ e.endpoint = "/rag/query" =>
                  /\ e.resp.status = 404
                  /\ e.resp.embed_calls = 0
                  /\ e.resp.chat_calls = 0
            /\ (e.endpoint = "/rag" /\ e.reached) =>
                  /\ e.svc.status = 404
                  /\ e.svc.embed_calls = 0
                  /\ e.svc.chat_calls = 0
                  /\ e.transport = "ok" => e.resp.status = 404

\* C5 witness: the gateway relayed the 404 of a user without a collection while
\* every external service was answering.
C5_Witness ==
    \E k \in 1..Len(log) :
        /\ log[k].endpoint = "/rag"
        /\ collection_name(log[k].user_id) \notin DOMAIN store
        /\ log[k].env = AllOk
        /\ log[k].transport = "ok"
        /\ log[k].resp.status = 404

\* C6: an upload whose chunk_overlap >= chunk_size is answered with an error, not
\* 202, and enqueues no job for any of its files.
C6_InvalidOverlapRejected ==
    \A u \in 1..Len(uploads) :
        uploads[u].chunk_overlap >= uploads[u].chunk_size =>
            /\ uploads[u].status # 202
            /\ uploads[u].task_ids = <<>>
            /\ \A i \in 1..Len(tasks) : tasks[i].upload # u

\* C7: every file of an accepted upload is its own job, and a job's result
\* depends on its own file only: whatever happens to its siblings, a job that has
\* run on an ingestible file ended as successfully processed.
C7_FilesSucceedIndependently ==
    \A u \in 1..Len(uploads) :
        uploads[u].status = 202 =>
            /\ Len(uploads[u].task_ids) = Len(uploads[u].files)
            /\ \A j \in 1..Len(uploads[u].task_ids) :
                  LET t == tasks[uploads[u].task_ids[j]] IN
                  /\ t.file = uploads[u].files[j]
                  /\ (t.state = "done" /\ Ingestible(t)) => t.ok

\* C8: the RAG service answers 404 only when the user's collection does not
\* exist; a collection lookup that fails because the store is unreachable ends
\* with another status.
C8_NotFoundOnlyWhenAbsent ==
    \A k \in 1..Len(log) :
        (log[k].endpoint = "/rag/query" /\ log[k].env.chroma # "ok") =>
            log[k].resp.status # 404

\* C9: when the connection to the RAG service fails or no answer arrives within
\* the timeout, the gateway's /rag has made one POST and answers 503.
C9_UpstreamUnavailableIs503 ==
    \A k \in 1..Len(log) :
        (log[k].endpoint = "/rag"
            /\ log[k].transport \in {"connect_error", "timeout"}) =>
            /\ log[k].resp.status = 503
            /\ log[k].resp.posts = 1

\* C9 witness: a /rag request timed out although the RAG service would have
\* answered 200.
C9_Witness ==
    \E k \in 1..Len(log) :
        /\ log[k].endpoint = "/rag"
        /\ log[k].transport = "timeout"
        /\ log[k].svc.status = 200
        /\ log[k].resp.status = 503

\* C10: a 200 classification response carries one of Positivo, Negativo, Neutro;
\* a completion without tool call, with arguments that do not parse or lack the
\* field, or with a value outside the three labels is answered 500 with no label.
C10_LabelIsOneOfThree ==
    \A k \in 1..Len(log) :
        LET e == log[k] IN
        e.endpoint \in {"/text/classify", "/classificar-texto"} =>
            /\ e.resp.status = 200 =>
                  e.resp.classificacao \in {"Positivo", "Negativo", "Neutro"}
            /\ (e.endpoint = "/text/classify"
                  /\ (\/ ~e.completion.has_tool_call
                      \/ ~e.completion.valid_json
                      \/ ~e.completion.has_key
                      \/ e.completion.value \notin {"Positivo", "Negativo", "Neutro"})) =>
                  /\ e.resp.status = 500
                  /\ e.resp.classificacao = NoLabel

\* C10 witness: the model called the tool with a value that is not one of the
\* labels and the request was answered 500.
C10_Witness ==
    \E k \in 1..Len(log) :
        /\ log[k].endpoint = "/text/classify"
        /\ log[k].completion.has_key
        /\ log[k].completion.value = "positivo"
        /\ log[k].resp.status = 500

====
